---------------------------- MODULE Spec2Model ----------------------------
(***************************************************************************)
(* Model of src/matchmaking.py (class Matchmaking): the challenge-timing   *)
(* state machine, the opponent filter and the challenge lifecycle, driven  *)
(* by the hosting polling loop.                                            *)
(*                                                                         *)
(* Python values are represented as follows.                               *)
(*   - a dict is a function whose DOMAIN is the set of its keys;           *)
(*   - None is "None" where strings are expected and the empty sequence    *)
(*     <<>> where an optional integer is expected (<<n>> is the integer);  *)
(*   - a time setting (int | list<int>) is a record [kind, vals] with kind *)
(*     "int" or "list";                                                    *)
(*   - a call's outcome is a record whose field exc names the exception    *)
(*     that left the call (NoExc when it returned);                        *)
(*   - time.time() is the integer variable now, in seconds, read once per  *)
(*     method call.                                                        *)
(***************************************************************************)
EXTENDS Integers, Sequences, FiniteSets, TLC

VARIABLES
    self,   \* the Matchmaking object: its attributes
    now,    \* the wall clock read by time.time()
    pc,     \* position of the hosting polling loop within a tick
    last,   \* the last call made on the object, what it was given and how it ended
    li      \* what the external client has been asked to do so far

vars == <<self, now, pc, last, li>>

-----------------------------------------------------------------------------
(* Bounds of the model. *)

\* The clock runs from 0 to MaxTime seconds, in steps of ClockStep seconds.
MaxTime == 65
ClockStep == 5

\* challenge_timeout and rate_limit_timeout are configured as 0..MaxTimeoutMinutes.
MaxTimeoutMinutes == 1

\* li.cancel is called at most MaxCancels times in a run.
MaxCancels == 2

-----------------------------------------------------------------------------
(* Python values. *)

None == "None"
NoExc == "NoExc"

EmptyDict == [k \in {} |-> TRUE]

Get(d, k, default) == IF k \in DOMAIN d THEN d[k] ELSE default

\* {**a, **b}
Merge(a, b) == [k \in DOMAIN a \cup DOMAIN b |-> IF k \in DOMAIN b THEN b[k] ELSE a[k]]

IntT(n) == [kind |-> "int", vals |-> <<n>>]
ListT(s) == [kind |-> "list", vals |-> s]
NoneT == [kind |-> "none", vals |-> <<>>]

\* Truth value of an optional integer: None and 0 are false.
TruthyInt(x) == x # <<>> /\ x[1] # 0

Range(s) == {s[i] : i \in 1..Len(s)}

\* filter(pred-set, seq): the elements of s that are in keep, in order.
RECURSIVE FilterSeq(_, _)
FilterSeq(s, keep) ==
    IF s = <<>> THEN <<>>
    ELSE (IF Head(s) \in keep THEN <<Head(s)>> ELSE <<>>) \o FilterSeq(Tail(s), keep)

-----------------------------------------------------------------------------
(* The configurations the bot is started with. *)

OwnUsername == "me"

\* config["challenge"]["variants"]
VariantLists == { <<"standard", "atomic", "fromPosition">>, <<"fromPosition">> }

\* Entries of matchmaking.challenges: the override profiles.
ProfileRatedStandard ==
    [challenge_variant |-> "standard", challenge_mode |-> "rated",
     opponent_blocklist |-> <<"b">>]

ProfileDays ==
    [challenge_days |-> IntT(2), opponent_max_rating |-> 2000]

ChallengeLists == { <<>>, <<ProfileRatedStandard>>, <<ProfileRatedStandard, ProfileDays>> }

TimeoutMinutes == 0..MaxTimeoutMinutes

\* The matchmaking section of the configuration, and the empty one.
MatchmakingCfgs ==
    { [allow_matchmaking |-> a, challenge_timeout |-> ct, rate_limit_timeout |-> rt,
       opponent_blocklist |-> <<"a">>, challenges |-> cl] :
        a \in BOOLEAN, ct \in TimeoutMinutes, rt \in TimeoutMinutes, cl \in ChallengeLists }

Configs ==
    { [challenge |-> [variants |-> vs], matchmaking |-> m] :
        vs \in VariantLists, m \in MatchmakingCfgs }
    \cup { [challenge |-> [variants |-> vs]] : vs \in VariantLists }

\* The configurations the model is started with: every matchmaking section, each
\* with the variant list its profiles are written for.
StartConfigs ==
    { c \in Configs :
        "matchmaking" \in DOMAIN c =>
            (c["challenge"]["variants"] = <<"fromPosition">>
                <=> c["matchmaking"]["challenges"] = <<ProfileRatedStandard>>) }

-----------------------------------------------------------------------------
(* Matchmaking.__init__ *)

\* for cfg in challenge_cfgs: {**matchmaking_cfg, **cfg}, with opponent_blocklist
\* the top-level list followed by the profile's.
merged_config(matchmaking_cfg, cfg) ==
    LET m == Merge(matchmaking_cfg, cfg)
        bl == Get(matchmaking_cfg, "opponent_blocklist", <<>>)
              \o Get(cfg, "opponent_blocklist", <<>>)
    IN [k \in DOMAIN m \cup {"opponent_blocklist"} |->
            IF k = "opponent_blocklist" THEN bl ELSE m[k]]

\* __init__ with the rate-limit time set to the current time, like the other two.
Matchmaking_init_rate_limited_now(config, username, t) ==
    LET variants == FilterSeq(config["challenge"]["variants"],
                              Range(config["challenge"]["variants"]) \ {"fromPosition"})
        matchmaking_cfg == Get(config, "matchmaking", EmptyDict)
        challenges == Get(matchmaking_cfg, "challenges", <<>>)
        challenge_cfgs == IF challenges = <<>> THEN <<EmptyDict>> ELSE challenges
        rate_limit_timeout == Get(matchmaking_cfg, "rate_limit_timeout", 60) * 60
    IN [ variants |-> variants,
         username |-> username,
         allow_matchmaking |-> Get(matchmaking_cfg, "allow_matchmaking", FALSE),
         challenge_timeout |-> Get(matchmaking_cfg, "challenge_timeout", 30) * 60,
         rate_limit_timeout |-> rate_limit_timeout,
         cfgs |-> [i \in 1..Len(challenge_cfgs) |->
                      merged_config(matchmaking_cfg, challenge_cfgs[i])],
         last_challenge_created |-> t,
         last_game_ended |-> t,
         last_challenge_rate_limited |-> t,
         challenge_expire_time |-> 25,
         challenge_id |-> None ]

Matchmaking_init(config, username, t) ==
    LET variants == FilterSeq(config["challenge"]["variants"],
                              Range(config["challenge"]["variants"]) \ {"fromPosition"})
        matchmaking_cfg == Get(config, "matchmaking", EmptyDict)
        challenges == Get(matchmaking_cfg, "challenges", <<>>)
        challenge_cfgs == IF challenges = <<>> THEN <<EmptyDict>> ELSE challenges
        rate_limit_timeout == Get(matchmaking_cfg, "rate_limit_timeout", 60) * 60
    IN [ variants |-> variants,
         username |-> username,
         allow_matchmaking |-> Get(matchmaking_cfg, "allow_matchmaking", FALSE),
         challenge_timeout |-> Get(matchmaking_cfg, "challenge_timeout", 30) * 60,
         rate_limit_timeout |-> rate_limit_timeout,
         cfgs |-> [i \in 1..Len(challenge_cfgs) |->
                      merged_config(matchmaking_cfg, challenge_cfgs[i])],
         last_challenge_created |-> t,
         last_game_ended |-> t,
         last_challenge_rate_limited |-> t - rate_limit_timeout,
         challenge_expire_time |-> 25,
         challenge_id |-> None ]

-----------------------------------------------------------------------------
(* Matchmaking.cancel_expired_challenges *)

\* cancel_expired_challenges that calls li.cancel and keeps the id.
cancel_expired_challenges_keeping_id(s, t, cancel_ok) ==
    IF s.challenge_id # None /\ t > s.last_challenge_created + s.challenge_expire_time
    THEN IF cancel_ok
         THEN [self |-> s, cancelled |-> <<s.challenge_id>>, exc |-> NoExc]
         ELSE [self |-> s, cancelled |-> <<s.challenge_id>>, exc |-> "HTTPError"]
    ELSE [self |-> s, cancelled |-> <<>>, exc |-> NoExc]

\* cancel_ok: whether li.cancel returns (TRUE) or raises (FALSE).
\* cancelled: the ids passed to li.cancel by this call.
cancel_expired_challenges(s, t, cancel_ok) ==
    IF s.challenge_id # None /\ t > s.last_challenge_created + s.challenge_expire_time
    THEN IF cancel_ok
         THEN [self |-> [s EXCEPT !.challenge_id = None],
               cancelled |-> <<s.challenge_id>>, exc |-> NoExc]
         ELSE [self |-> s, cancelled |-> <<s.challenge_id>>, exc |-> "CancelError"]
    ELSE [self |-> s, cancelled |-> <<>>, exc |-> NoExc]

-----------------------------------------------------------------------------
(* Matchmaking.should_create_challenge *)

\* should_create_challenge without its check for an active challenge.
should_create_challenge_ignoring_active(s, t) ==
    IF ~s.allow_matchmaking THEN FALSE
    ELSE IF t < s.last_game_ended + s.challenge_timeout THEN FALSE
    ELSE IF t < s.last_challenge_rate_limited + s.rate_limit_timeout THEN FALSE
    ELSE TRUE

\* should_create_challenge waiting one second longer after a game (<= for <).
should_create_challenge_late(s, t) ==
    IF ~s.allow_matchmaking THEN FALSE
    ELSE IF s.challenge_id # None THEN FALSE
    ELSE IF t <= s.last_game_ended + s.challenge_timeout THEN FALSE
    ELSE IF t < s.last_challenge_rate_limited + s.rate_limit_timeout THEN FALSE
    ELSE TRUE

should_create_challenge(s, t) ==
    IF ~s.allow_matchmaking THEN FALSE
    ELSE IF s.challenge_id # None THEN FALSE
    ELSE IF t < s.last_game_ended + s.challenge_timeout THEN FALSE
    ELSE IF t < s.last_challenge_rate_limited + s.rate_limit_timeout THEN FALSE
    ELSE TRUE

-----------------------------------------------------------------------------
(* Matchmaking.get_time *)

\* The function as defined: def get_time(cfg, name, default=None).
\* pick is the index random.choice draws. The result is an optional integer.
get_time(cfg, name, default, pick) ==
    LET match_time == Get(cfg, name, default)
        choices == match_time.vals     \* an int becomes the one-element list
    IN IF match_time.kind = "none" THEN [exc |-> NoExc, val |-> <<>>]
       ELSE IF choices = <<>> THEN [exc |-> "IndexError", val |-> <<>>]
       ELSE [exc |-> NoExc, val |-> <<choices[((pick - 1) % Len(choices)) + 1]>>]

\* The number of positional parameters get_time declares (cfg, name, default).
get_time_params == 3

\* The call as written in choose_opponent: self.get_time(args...). get_time is a
\* plain function in the class body, so the attribute access binds self as its
\* first positional argument: the explicit arguments are shifted by one. With three
\* explicit arguments four are passed to three parameters (TypeError); with two,
\* cfg is the Matchmaking object, which has no get (AttributeError).
self_get_time(s, args, pick) ==
    IF Len(args) + 1 > get_time_params
    THEN [exc |-> "TypeError", val |-> <<>>]
    ELSE [exc |-> "AttributeError", val |-> <<>>]

-----------------------------------------------------------------------------
(* Matchmaking.choose_opponent *)

\* game_type with the bullet limit taken inclusively (<= for <).
game_type_inclusive(variant, days, base_time, increment) ==
    LET game_duration == base_time + increment * 40
    IN IF variant # "standard" THEN variant
       ELSE IF TruthyInt(days) THEN "correspondence"
       ELSE IF game_duration <= 179 THEN "bullet"
       ELSE IF game_duration < 479 THEN "blitz"
       ELSE IF game_duration < 1499 THEN "rapid"
       ELSE "classical"

\* The rating bucket, lines 101-113. days is an optional integer.
game_type(variant, days, base_time, increment) ==
    LET game_duration == base_time + increment * 40
    IN IF variant # "standard" THEN variant
       ELSE IF TruthyInt(days) THEN "correspondence"
       ELSE IF game_duration < 179 THEN "bullet"
       ELSE IF game_duration < 479 THEN "blitz"
       ELSE IF game_duration < 1499 THEN "rapid"
       ELSE "classical"

\* cfg.get(name) or default, for an integer setting.
GetOr(cfg, name, default) ==
    IF name \in DOMAIN cfg /\ cfg[name] # 0 THEN cfg[name] ELSE default

\* cfg.get(name) or default, for a string setting.
GetOrStr(cfg, name, default) ==
    IF name \in DOMAIN cfg /\ cfg[name] # "" THEN cfg[name] ELSE default

\* A bot is a dict with username and perfs, and optionally disabled and
\* tosViolation; perfs maps a game type to a dict with games and rating.
is_suitable_opponent(s, cfg, gtype, min_rating, max_rating, allow_tos_violation, bot) ==
    LET perf == Get(bot["perfs"], gtype, EmptyDict)
    IN /\ bot["username"] # s.username
       /\ ~Get(bot, "disabled", FALSE)
       /\ (allow_tos_violation \/ ~Get(bot, "tosViolation", FALSE))
       /\ bot["username"] \notin Range(cfg["opponent_blocklist"])
       /\ Get(perf, "games", 0) > 0
       /\ min_rating <= Get(perf, "rating", 0)
       /\ Get(perf, "rating", 0) <= max_rating

\* What choose_opponent raises or returns.
Raised(e) ==
    [exc |-> e, bot_username |-> None, base_time |-> <<>>, increment |-> <<>>,
     days |-> <<>>, variant |-> None, mode |-> None, game_type |-> None]

\* rnd: what the calls of random.choice draw in this invocation.
\* env: how the external client answers in this invocation.
choose_opponent(s, cfg, rnd, env) ==
    LET mode0 == GetOrStr(cfg, "challenge_mode", "random")
        mode == IF mode0 = "random" THEN rnd.mode ELSE mode0
        variant0 == GetOrStr(cfg, "challenge_variant", "random")
        variant == IF variant0 # "random" THEN variant0
                   ELSE s.variants[((rnd.variant - 1) % Len(s.variants)) + 1]
        base_time == self_get_time(s, <<cfg, "challenge_initial_time", IntT(60)>>, rnd.base_time)
        increment == self_get_time(s, <<cfg, "challenge_increment", IntT(2)>>, rnd.increment)
        days == self_get_time(s, <<cfg, "challenge_days">>, rnd.days)
        gtype == game_type(variant, days.val, base_time.val[1], increment.val[1])
        min_rating == GetOr(cfg, "opponent_min_rating", 600)
        max_rating == GetOr(cfg, "opponent_max_rating", 4000)
        allow_tos_violation == Get(cfg, "opponent_allow_tos_violation", TRUE)
        online_bots ==
            FilterSeq(env.online_bots,
                      {b \in Range(env.online_bots) :
                          is_suitable_opponent(s, cfg, gtype, min_rating, max_rating,
                                               allow_tos_violation, b)})
        bot_username ==
            IF online_bots # <<>>
            THEN online_bots[((rnd.opponent - 1) % Len(online_bots)) + 1]["username"]
            ELSE None
    IN IF variant0 = "random" /\ s.variants = <<>> THEN Raised("IndexError")
       ELSE IF base_time.exc # NoExc THEN Raised(base_time.exc)
       ELSE IF increment.exc # NoExc THEN Raised(increment.exc)
       ELSE IF days.exc # NoExc THEN Raised(days.exc)
       ELSE IF env.online_bots_exc # NoExc THEN Raised(env.online_bots_exc)
       ELSE [exc |-> NoExc, bot_username |-> bot_username, base_time |-> base_time.val,
             increment |-> increment.val, days |-> days.val, variant |-> variant,
             mode |-> mode, game_type |-> gtype]

-----------------------------------------------------------------------------
(* Matchmaking.create_challenge *)

\* The answers of li.challenge: a response carrying a challenge id, a response
\* carrying none, or an exception.
ChallengeIds == {"c1", "c2"}
ChallengeErrors == {"HTTPError429", "HTTPError", "ConnectionError"}
ChallengeReplies == ChallengeIds \cup {"noid"} \cup ChallengeErrors

\* base_time, increment and days are optional integers; pick is the index
\* random.choice draws from play_correspondence; reply is li.challenge's answer.
\* sent: the requests passed to li.challenge by this call.
\* create_challenge with the clock always among the styles to choose from.
create_challenge_clock_always(username, base_time, increment, days, variant, mode, pick, reply) ==
    LET rated == (mode = "rated")
        play_correspondence ==
            (IF TruthyInt(days) THEN <<TRUE>> ELSE <<>>)
            \o <<FALSE>>
        correspondence ==
            play_correspondence[((pick - 1) % Len(play_correspondence)) + 1]
        params ==
            IF correspondence
            THEN [rated |-> rated, variant |-> variant, days |-> days,
                  clock_limit |-> <<>>, clock_increment |-> <<>>, has_clock |-> FALSE]
            ELSE [rated |-> rated, variant |-> variant, days |-> <<>>,
                  clock_limit |-> base_time, clock_increment |-> increment,
                  has_clock |-> TRUE]
        sent == <<[username |-> username, params |-> params]>>
    IN IF play_correspondence = <<>>
       THEN [exc |-> "IndexError", ret |-> None, sent |-> <<>>]
       ELSE IF reply \in ChallengeIds
       THEN [exc |-> NoExc, ret |-> reply, sent |-> sent]
       ELSE [exc |-> NoExc, ret |-> None, sent |-> sent]

create_challenge(username, base_time, increment, days, variant, mode, pick, reply) ==
    LET rated == (mode = "rated")
        play_correspondence ==
            (IF TruthyInt(days) THEN <<TRUE>> ELSE <<>>)
            \o (IF TruthyInt(base_time) \/ TruthyInt(increment) THEN <<FALSE>> ELSE <<>>)
        correspondence ==
            play_correspondence[((pick - 1) % Len(play_correspondence)) + 1]
        params ==
            IF correspondence
            THEN [rated |-> rated, variant |-> variant, days |-> days,
                  clock_limit |-> <<>>, clock_increment |-> <<>>, has_clock |-> FALSE]
            ELSE [rated |-> rated, variant |-> variant, days |-> <<>>,
                  clock_limit |-> base_time, clock_increment |-> increment,
                  has_clock |-> TRUE]
        sent == <<[username |-> username, params |-> params]>>
    IN IF play_correspondence = <<>>
       THEN [exc |-> "IndexError", ret |-> None, sent |-> <<>>]
       ELSE IF reply \in ChallengeIds
       THEN [exc |-> NoExc, ret |-> reply, sent |-> sent]
       ELSE [exc |-> NoExc, ret |-> None, sent |-> sent]

-----------------------------------------------------------------------------
(* Matchmaking.challenge *)

challenge(s, t, rnd, env) ==
    LET profile == ((rnd.cfg - 1) % Len(s.cfgs)) + 1
        cfg == s.cfgs[profile]
        chosen == choose_opponent(s, cfg, rnd, env)
        created ==
            IF chosen.bot_username # None
            THEN create_challenge(chosen.bot_username, chosen.base_time, chosen.increment,
                                  chosen.days, chosen.variant, chosen.mode,
                                  rnd.correspondence, env.challenge_reply)
            ELSE [exc |-> NoExc, ret |-> None, sent |-> <<>>]
    IN IF chosen.exc # NoExc
       THEN [self |-> s, exc |-> chosen.exc, profile |-> profile, chosen |-> chosen, sent |-> <<>>]
       ELSE IF created.exc = NoExc
       THEN [self |-> [s EXCEPT !.last_challenge_created = t,
                                !.challenge_id = created.ret],
             exc |-> NoExc, profile |-> profile, chosen |-> chosen, sent |-> created.sent]
       ELSE IF created.exc = "HTTPError429"
       THEN [self |-> [s EXCEPT !.last_challenge_rate_limited = t],
             exc |-> NoExc, profile |-> profile, chosen |-> chosen, sent |-> created.sent]
       ELSE IF created.exc = "HTTPError"
       THEN [self |-> s, exc |-> NoExc, profile |-> profile, chosen |-> chosen, sent |-> created.sent]
       ELSE [self |-> s, exc |-> created.exc, profile |-> profile, chosen |-> chosen, sent |-> created.sent]

-----------------------------------------------------------------------------
(* The external client and the random source, as seen by one invocation. *)

Perf(games, rating) == [games |-> games, rating |-> rating]

BotA == [username |-> "a", perfs |-> [bullet |-> Perf(10, 2000), standard |-> Perf(0, 1500)]]
BotB == [username |-> "b", perfs |-> [bullet |-> Perf(5, 5000), atomic |-> Perf(3, 1800)],
         tosViolation |-> TRUE]
BotC == [username |-> "c", perfs |-> [bullet |-> Perf(7, 600), correspondence |-> Perf(2, 1900)],
         disabled |-> FALSE]
BotMe == [username |-> OwnUsername, perfs |-> [bullet |-> Perf(9, 2100)]]

\* The answers of li.get_online_bots.
OnlineBotLists == { <<>>, <<BotC>>, <<BotA, BotB, BotMe>> }

\* The client within one challenge(): every list of online bots with a client that
\* accepts the challenge, every answer to the challenge for the longest list, and
\* a client whose get_online_bots raises.
Envs ==
    { [online_bots |-> bots, online_bots_exc |-> NoExc, challenge_reply |-> "c1"] :
        bots \in OnlineBotLists }
    \cup { [online_bots |-> <<BotA, BotB, BotMe>>, online_bots_exc |-> NoExc,
            challenge_reply |-> r] : r \in ChallengeReplies }
    \cup { [online_bots |-> <<>>, online_bots_exc |-> "HTTPError", challenge_reply |-> "c1"] }

Max(a, b) == IF a >= b THEN a ELSE b

\* The draws of random.choice within one challenge() on object s with client env:
\* one index per list drawn from.
Rnds(s, env) ==
    [ cfg : 1..Len(s.cfgs),
      mode : {"casual", "rated"},
      variant : 1..Max(1, Len(s.variants)),
      base_time : {1}, increment : {1}, days : {1},
      opponent : 1..Max(1, Len(env.online_bots)),
      correspondence : 1..2 ]

-----------------------------------------------------------------------------
(* The state machine: the object, and the polling loop that drives it. *)

NoEnv == [online_bots |-> <<>>, online_bots_exc |-> NoExc, challenge_reply |-> "noid"]

NoArgs ==
    [username |-> None, base_time |-> <<>>, increment |-> <<>>, days |-> <<>>,
     variant |-> None, mode |-> None]

\* last: op is the method called and exc the exception that left it; decision is
\* what should_create_challenge returned, ret what create_challenge returned;
\* cancelled and sent are the requests the call passed to li.cancel and
\* li.challenge; env is the client the call ran against, chosen what
\* choose_opponent returned inside challenge() for the profile self.cfgs[profile],
\* args what create_challenge was
\* called with, and before the challenge_id when the call started.
NoCall ==
    [op |-> "none", exc |-> NoExc, decision |-> FALSE, ret |-> None, cancelled |-> <<>>,
     env |-> NoEnv, profile |-> 0, chosen |-> Raised(NoExc), args |-> NoArgs,
     sent |-> <<>>, before |-> None]

Init ==
    /\ now = 0
    /\ \E config \in StartConfigs : self = Matchmaking_init(config, OwnUsername, 0)
    /\ pc = "idle"
    /\ last = NoCall
    /\ li = [cancels |-> 0, challenges |-> 0]

\* Time passes.
AdvanceClock ==
    /\ \E t \in (now + 1)..MaxTime : t % ClockStep = 0 /\ now' = t
    /\ last' = NoCall
    /\ UNCHANGED <<self, pc, li>>

\* The host records that a game has finished.
GameEnded ==
    /\ pc = "idle"
    /\ self.last_game_ended # now
    /\ self' = [self EXCEPT !.last_game_ended = now]
    /\ last' = NoCall
    /\ UNCHANGED <<now, pc, li>>

\* A poll tick starts: cancel_expired_challenges(). li.cancel, when called,
\* returns or raises; an exception leaves the method and ends the tick, and the
\* host goes on polling.
PollCancel ==
    /\ pc = "idle"
    /\ li.cancels < MaxCancels
    /\ \E cancel_ok \in BOOLEAN :
        LET r == cancel_expired_challenges(self, now, cancel_ok)
        IN /\ (r.cancelled = <<>> => cancel_ok)
           /\ self' = r.self
           /\ li' = [li EXCEPT !.cancels = @ + Len(r.cancelled)]
           /\ last' = [NoCall EXCEPT !.op = "cancel_expired_challenges", !.exc = r.exc,
                                     !.cancelled = r.cancelled,
                                     !.before = self.challenge_id]
           /\ pc' = IF r.exc = NoExc THEN "decide" ELSE "idle"
    /\ UNCHANGED now

\* The tick goes on: should_create_challenge().
PollDecide ==
    /\ pc = "decide"
    /\ LET d == should_create_challenge(self, now)
       IN /\ last' = [NoCall EXCEPT !.op = "should_create_challenge", !.decision = d]
          /\ pc' = IF d THEN "challenge" ELSE "idle"
    /\ UNCHANGED <<self, now, li>>

\* The tick ends with challenge(), taken only when should_create_challenge() said
\* so. An exception that leaves challenge() is recorded in last.exc, and the host
\* goes on polling.
PollChallenge ==
    /\ pc = "challenge"
    /\ \E env \in Envs : \E rnd \in Rnds(self, env) :
        LET r == challenge(self, now, rnd, env)
        IN /\ self' = r.self
           /\ li' = [li EXCEPT !.challenges = @ + Len(r.sent)]
           /\ last' = [NoCall EXCEPT !.op = "challenge", !.exc = r.exc, !.env = env,
                                     !.profile = r.profile, !.chosen = r.chosen, !.sent = r.sent,
                                     !.before = self.challenge_id]
    /\ pc' = "idle"
    /\ UNCHANGED now

Next == AdvanceClock \/ GameEnded \/ PollCancel \/ PollDecide \/ PollChallenge

\* The program: the object as constructed, driven by the polling loop.
Spec == Init /\ [][Next]_vars

-----------------------------------------------------------------------------
(* The methods on every state of the object.                               *)
(* cancel_expired_challenges and should_create_challenge are specified for *)
(* every value of the attributes they read. InitAny draws challenge_id and *)
(* last_challenge_rate_limited, which no run from Init changes, from their *)
(* domains: a challenge may be tracked, created at time 0, and a rate      *)
(* limit may have been hit at time 0.                                      *)

AnyConfigs ==
    { c \in StartConfigs :
        /\ "matchmaking" \in DOMAIN c
        /\ c["matchmaking"]["challenges"] = <<ProfileRatedStandard, ProfileDays>> }

InitAny ==
    /\ now = 0
    /\ \E config \in AnyConfigs, id \in {None} \cup ChallengeIds, limited \in BOOLEAN :
        LET s == Matchmaking_init(config, OwnUsername, 0)
        IN self = [s EXCEPT !.challenge_id = id,
                            !.last_challenge_rate_limited = IF limited THEN 0 ELSE @]
    /\ pc = "idle"
    /\ last = NoCall
    /\ li = [cancels |-> 0, challenges |-> 0]

SpecAny == InitAny /\ [][Next]_vars

-----------------------------------------------------------------------------
(* The polling loop on every state of the object, with a client whose      *)
(* cancel request succeeds, a clock that advances and ticks that go on.     *)

PollCancelOk ==
    /\ pc = "idle"
    /\ li.cancels < MaxCancels
    /\ LET r == cancel_expired_challenges(self, now, TRUE)
       IN /\ self' = r.self
          /\ li' = [li EXCEPT !.cancels = @ + Len(r.cancelled)]
          /\ last' = [NoCall EXCEPT !.op = "cancel_expired_challenges", !.exc = r.exc,
                                    !.cancelled = r.cancelled,
                                    !.before = self.challenge_id]
          /\ pc' = IF r.exc = NoExc THEN "decide" ELSE "idle"
    /\ UNCHANGED now

NextFair == AdvanceClock \/ GameEnded \/ PollCancelOk \/ PollDecide \/ PollChallenge

SpecFair ==
    /\ InitAny
    /\ [][NextFair]_vars
    /\ WF_vars(AdvanceClock)
    /\ WF_vars(PollCancelOk)
    /\ WF_vars(PollDecide)
    /\ WF_vars(PollChallenge)

-----------------------------------------------------------------------------
(* create_challenge on every combination of arguments. *)

OptInts == { <<>>, <<0>>, <<2>> }

CreateChallengeArgs ==
    [ username : {"a"}, base_time : {<<0>>, <<60>>}, increment : {<<0>>, <<2>>},
      days : OptInts, variant : {"standard", "atomic"}, mode : {"casual", "rated"} ]

CallCreateChallenge ==
    /\ last.op = "none"
    /\ \E a \in CreateChallengeArgs, pick \in 1..2, reply \in ChallengeReplies :
        LET r == create_challenge(a.username, a.base_time, a.increment, a.days,
                                  a.variant, a.mode, pick, reply)
        IN /\ last' = [NoCall EXCEPT !.op = "create_challenge", !.exc = r.exc,
                                     !.ret = r.ret, !.sent = r.sent, !.args = a,
                                     !.env = [NoEnv EXCEPT !.challenge_reply = reply]]
           /\ li' = [li EXCEPT !.challenges = Len(r.sent)]
    /\ UNCHANGED <<self, now, pc>>

NextCreate == CallCreateChallenge

SpecCreate == Init /\ [][NextCreate]_vars

-----------------------------------------------------------------------------
(* The rating bucket of choose_opponent (lines 101-113) on every variant,  *)
(* days value, base time and increment within the bounds.                  *)

\* base_time ranges over 0..MaxBaseTime seconds, increment over 0..MaxIncrement.
MaxBaseTime == 1500
MaxIncrement == 5

DeriveGameType ==
    /\ last.op = "none"
    /\ \E variant \in {"standard", "atomic"}, days \in OptInts,
          base_time \in 0..MaxBaseTime, increment \in 0..MaxIncrement :
        last' = [op |-> "game_type", variant |-> variant, days |-> days,
                 base_time |-> base_time, increment |-> increment,
                 bucket |-> game_type(variant, days, base_time, increment)]
    /\ UNCHANGED <<self, now, pc, li>>

NextGameType == DeriveGameType

InitGameType ==
    /\ now = 0
    /\ self = Matchmaking_init([challenge |-> [variants |-> <<"standard", "atomic">>]],
                               OwnUsername, 0)
    /\ pc = "idle"
    /\ last = NoCall
    /\ li = [cancels |-> 0, challenges |-> 0]

SpecGameType == InitGameType /\ [][NextGameType]_vars

-----------------------------------------------------------------------------
(* A top-level matchmaking section with one override profile: the profile  *)
(* __init__ stores for it (lines 21-27) and the rating limits, the terms-of *)
(* -service switch and the blocklist choose_opponent filters with (lines    *)
(* 115-117 and 124).                                                        *)

\* A setting that is absent or has one of the given values.
OptSetting(name, values) ==
    {EmptyDict} \cup { [k \in {name} |-> v] : v \in values }

TopLevelSettings ==
    { Merge(Merge(a, b), Merge(c, d)) :
        a \in OptSetting("opponent_min_rating", {0, 1500}),
        b \in OptSetting("opponent_max_rating", {2000}),
        c \in OptSetting("opponent_blocklist", {<<"a">>}),
        d \in OptSetting("opponent_allow_tos_violation", {FALSE}) }

OverrideProfiles ==
    { Merge(a, Merge(b, c)) :
        a \in OptSetting("opponent_min_rating", {0, 1200}),
        b \in OptSetting("opponent_max_rating", {3000}),
        c \in OptSetting("opponent_blocklist", {<<"b">>}) }

InitResolve ==
    /\ now = 0
    /\ \E top \in TopLevelSettings, cfg \in OverrideProfiles :
        LET config == [challenge |-> [variants |-> <<"standard">>],
                       matchmaking |-> Merge(top, [challenges |-> <<cfg>>])]
        IN /\ self = Matchmaking_init(config, OwnUsername, 0)
           /\ last = [op |-> "init", config |-> config]
    /\ pc = "idle"
    /\ li = [cancels |-> 0, challenges |-> 0]

\* Lines 115-117 on the stored profile.
ResolveLimits ==
    /\ last.op = "init"
    /\ LET cfg == self.cfgs[1]
       IN last' = [op |-> "choose_opponent", config |-> last.config,
                   min_rating |-> GetOr(cfg, "opponent_min_rating", 600),
                   max_rating |-> GetOr(cfg, "opponent_max_rating", 4000),
                   allow_tos_violation |-> Get(cfg, "opponent_allow_tos_violation", TRUE),
                   blocklist |-> cfg["opponent_blocklist"]]
    /\ UNCHANGED <<self, now, pc, li>>

NextResolve == ResolveLimits

SpecResolve == InitResolve /\ [][NextResolve]_vars

-----------------------------------------------------------------------------
(* The claims. *)

TimeoutsElapsed ==
    /\ now >= self.last_game_ended + self.challenge_timeout
    /\ now >= self.last_challenge_rate_limited + self.rate_limit_timeout

\* C1: in every run of the polling loop, challenge() is entered, and so the
\* external challenge request issued, only while challenge_id is None:
\* should_create_challenge() answers False in every state in which an id is
\* tracked, and True only in states where the id is None and both timeouts have
\* elapsed.
C1_NoChallengeWhileActive ==
    /\ pc = "challenge" => self.challenge_id = None
    /\ last.op = "challenge" => last.before = None
    /\ (last.op = "should_create_challenge" /\ self.challenge_id # None) => ~last.decision
    /\ (last.op = "should_create_challenge" /\ last.decision)
          => (self.challenge_id = None /\ TimeoutsElapsed)

\* A tick on which only the tracked, not yet expired id keeps the bot from
\* challenging.
C1_Witness ==
    /\ last.op = "should_create_challenge"
    /\ ~last.decision
    /\ self.challenge_id # None
    /\ self.allow_matchmaking
    /\ TimeoutsElapsed

\* C2: should_create_challenge() returns True if and only if allow_matchmaking
\* is true, challenge_id is None, now >= last_game_ended + challenge_timeout and
\* now >= last_challenge_rate_limited + rate_limit_timeout.
C2_ShouldCreateIff ==
    last.op = "should_create_challenge" =>
        (last.decision <=>
            (/\ self.allow_matchmaking
             /\ self.challenge_id = None
             /\ now >= self.last_game_ended + self.challenge_timeout
             /\ now >= self.last_challenge_rate_limited + self.rate_limit_timeout))

\* should_create_challenge() has returned True at the very second the wait after
\* the last game ends, a positive wait.
C2_Witness ==
    /\ last.op = "should_create_challenge"
    /\ last.decision
    /\ self.challenge_timeout > 0
    /\ now = self.last_game_ended + self.challenge_timeout

\* C3: when the client answers the challenge request of challenge() with a rate
\* limit rejection (HTTP 429), last_challenge_rate_limited is the time of the
\* failure and should_create_challenge() is False until rate_limit_timeout
\* seconds later.
C3_RateLimitBacksOff ==
    (/\ last.op = "challenge"
     /\ last.env.challenge_reply = "HTTPError429"
     /\ last.env.online_bots # <<>>)
    => /\ self.last_challenge_rate_limited = now
       /\ \A t \in now..MaxTime :
            t < now + self.rate_limit_timeout => ~should_create_challenge(self, t)

\* C4: a call of cancel_expired_challenges() passes the id to li.cancel and sets
\* challenge_id to None if and only if an id is tracked and more than 25 seconds
\* have passed since last_challenge_created; otherwise it issues no request and
\* changes no attribute.
C4_CancelIffExpired ==
    [][ (pc = "idle" /\ last'.op = "cancel_expired_challenges") =>
            LET expired == /\ self.challenge_id # None
                           /\ now > self.last_challenge_created + 25
            IN /\ (last'.cancelled # <<>> /\ self'.challenge_id = None) <=> expired
               /\ ~expired => (last'.cancelled = <<>> /\ self' = self) ]_vars

\* C5: when li.cancel raises inside cancel_expired_challenges(), challenge_id is
\* None afterwards.
C5_ClearedWhenCancelFails ==
    (last.op = "cancel_expired_challenges" /\ last.exc # NoExc)
        => self.challenge_id = None

\* C6: calls of cancel_expired_challenges() before the expiry leave the challenge
\* tracked and issue no request; once it has expired, the cancel request for the
\* challenge is issued exactly once over all the calls that follow.
C6_CancelledExactlyOnce ==
    last.op = "cancel_expired_challenges" =>
        IF last.before # None /\ now > self.last_challenge_created + 25
        THEN li.cancels = 1
        ELSE /\ self.challenge_id = last.before
             /\ last.cancelled = <<>>
             /\ li.cancels <= 1

\* C7: no exception leaves challenge().
C7_ChallengeNeverRaises ==
    last.op = "challenge" => last.exc = NoExc

\* C8: create_challenge raises nothing, returns the id when li.challenge's
\* response carries one, and None when it carries none or li.challenge raises.
C8_CreateChallengeNeverRaises ==
    last.op = "create_challenge" =>
        /\ last.exc = NoExc
        /\ last.ret = (IF last.env.challenge_reply \in ChallengeIds
                       THEN last.env.challenge_reply ELSE None)

\* C9: after a challenge() that tracks no id (a failed attempt),
\* should_create_challenge() is False on the tick that follows at once, so that
\* the loop cannot attempt a challenge on every tick.
C9_FailedAttemptPostpones ==
    (last.op = "challenge" /\ self.challenge_id = None)
        => ~should_create_challenge(self, now)

\* C10: choose_opponent returns None or the username of an online bot that
\* passes every filter for the resolved game type, and None exactly when no
\* online bot passes them.
C10_OpponentIsSuitable ==
    (last.op = "challenge" /\ last.env.online_bots_exc = NoExc) =>
        LET cfg == self.cfgs[last.profile]
            c == last.chosen
            min_rating == IF "opponent_min_rating" \in DOMAIN cfg
                          THEN cfg["opponent_min_rating"] ELSE 600
            max_rating == IF "opponent_max_rating" \in DOMAIN cfg
                          THEN cfg["opponent_max_rating"] ELSE 4000
            Passes(b) ==
                /\ b["username"] # OwnUsername
                /\ ~("disabled" \in DOMAIN b /\ b["disabled"])
                /\ ("opponent_allow_tos_violation" \in DOMAIN cfg
                        /\ ~cfg["opponent_allow_tos_violation"])
                    => ~("tosViolation" \in DOMAIN b /\ b["tosViolation"])
                /\ \A i \in 1..Len(cfg["opponent_blocklist"]) :
                        cfg["opponent_blocklist"][i] # b["username"]
                /\ c.game_type \in DOMAIN b["perfs"]
                /\ b["perfs"][c.game_type]["games"] >= 1
                /\ b["perfs"][c.game_type]["rating"] >= min_rating
                /\ b["perfs"][c.game_type]["rating"] <= max_rating
            suitable == {b \in Range(last.env.online_bots) : Passes(b)}
        IN /\ c.exc = NoExc
           /\ c.bot_username = None <=> suitable = {}
           /\ c.bot_username # None => \E b \in suitable : b["username"] = c.bot_username

\* C11: the bucket is the variant name for a variant other than "standard";
\* for "standard" it is "correspondence" when days is set (not None and not 0,
\* as the code tests it), and otherwise, with duration = base_time + 40 *
\* increment, "bullet" below 179, "blitz" from 179 below 479, "rapid" from 479
\* below 1499 and "classical" from 1499 on.
C11_GameTypeBuckets ==
    last.op = "game_type" =>
        LET duration == last.base_time + 40 * last.increment
        IN /\ last.variant # "standard" => last.bucket = last.variant
           /\ (last.variant = "standard" /\ last.days \notin {<<>>, <<0>>})
                => last.bucket = "correspondence"
           /\ (last.variant = "standard" /\ last.days \in {<<>>, <<0>>}) =>
                /\ duration < 179 => last.bucket = "bullet"
                /\ (179 <= duration /\ duration < 479) => last.bucket = "blitz"
                /\ (479 <= duration /\ duration < 1499) => last.bucket = "rapid"
                /\ duration >= 1499 => last.bucket = "classical"
           /\ (last.variant = "standard" /\ last.days = <<>>
                /\ last.base_time = 60 /\ last.increment = 2) => last.bucket = "bullet"
           /\ (last.variant = "standard" /\ last.days = <<>>
                /\ last.base_time = 180 /\ last.increment = 5) => last.bucket = "blitz"

\* A standard game without days whose duration is exactly 179 seconds: the first
\* duration that is blitz.
C11_Witness ==
    /\ last.op = "game_type"
    /\ last.variant = "standard"
    /\ last.days = <<>>
    /\ last.base_time + 40 * last.increment = 179
    /\ last.bucket = "blitz"

\* C12: each field of the stored profile is the override's value when the
\* override has the field and the top-level value otherwise, opponent_blocklist
\* being the top-level list followed by the override's; and the limits, the
\* terms-of-service switch and the blocklist choose_opponent filters with are the
\* values of those fields in the stored profile.
C12_ResolvedFieldsTakeEffect ==
    last.op \in {"init", "choose_opponent"} =>
        LET top == last.config["matchmaking"]
            cfg == top["challenges"][1]
            resolved == self.cfgs[1]
            Plain == {"opponent_min_rating", "opponent_max_rating",
                      "opponent_allow_tos_violation"}
        IN /\ \A f \in Plain :
                /\ f \in DOMAIN cfg => (f \in DOMAIN resolved /\ resolved[f] = cfg[f])
                /\ (f \notin DOMAIN cfg /\ f \in DOMAIN top)
                      => (f \in DOMAIN resolved /\ resolved[f] = top[f])
           /\ resolved["opponent_blocklist"]
                = Get(top, "opponent_blocklist", <<>>) \o Get(cfg, "opponent_blocklist", <<>>)
           /\ last.op = "choose_opponent" =>
                /\ "opponent_min_rating" \in DOMAIN resolved
                      => last.min_rating = resolved["opponent_min_rating"]
                /\ "opponent_max_rating" \in DOMAIN resolved
                      => last.max_rating = resolved["opponent_max_rating"]
                /\ "opponent_allow_tos_violation" \in DOMAIN resolved
                      => last.allow_tos_violation = resolved["opponent_allow_tos_violation"]
                /\ last.blocklist = resolved["opponent_blocklist"]

\* C13: a challenge() on a profile that configures challenge_days and neither
\* challenge_initial_time nor challenge_increment comes to its request, and every
\* request it sends carries days and no clock; on a profile that configures a
\* time setting and no challenge_days every request carries the clock and no
\* days. (The client answers get_online_bots and a variant can be chosen.)
C13_OnlyConfiguredStyleSent ==
    (last.op = "challenge" /\ last.env.online_bots_exc = NoExc /\ self.variants # <<>>) =>
        LET cfg == self.cfgs[last.profile]
            has_days == "challenge_days" \in DOMAIN cfg
            has_time == \/ "challenge_initial_time" \in DOMAIN cfg
                        \/ "challenge_increment" \in DOMAIN cfg
        IN /\ (has_days /\ ~has_time) =>
                /\ last.exc = NoExc
                /\ \A i \in 1..Len(last.sent) :
                      /\ last.sent[i].params.days # <<>>
                      /\ ~last.sent[i].params.has_clock
           /\ (has_time /\ ~has_days) =>
                /\ last.exc = NoExc
                /\ \A i \in 1..Len(last.sent) :
                      /\ last.sent[i].params.has_clock
                      /\ last.sent[i].params.days = <<>>

\* The attributes should_create_challenge reads are as __init__ set them at
\* startup (time 0): no game has ended, no rate limit was met, no challenge is
\* tracked.
AsConstructed ==
    /\ self.last_game_ended = 0
    /\ self.last_challenge_rate_limited = 0 - self.rate_limit_timeout
    /\ self.challenge_id = None

\* C14 as stated: at startup the rate-limit time is startup - rate_limit_timeout,
\* and with allow_matchmaking true should_create_challenge() answers True on a
\* tick that finds the object as constructed, whenever that tick comes.
C14_EligibleAtStartup ==
    /\ now = 0 => self.last_challenge_rate_limited = 0 - self.rate_limit_timeout
    /\ (last.op = "should_create_challenge" /\ AsConstructed /\ self.allow_matchmaking)
          => last.decision

\* C14, amended: at startup the rate-limit time is startup - rate_limit_timeout
\* and last_game_ended is the startup time; on a tick that finds the object as
\* constructed should_create_challenge() answers True exactly when
\* allow_matchmaking is true and challenge_timeout seconds have passed since
\* startup.
C14_EligibleAfterTimeout ==
    /\ now = 0 => AsConstructed
    /\ (last.op = "should_create_challenge" /\ AsConstructed) =>
          (last.decision <=> (self.allow_matchmaking /\ now >= 0 + self.challenge_timeout))

\* The first tick right at startup with a challenge_timeout of one minute:
\* matchmaking is allowed and the answer is False.
C14_Witness ==
    /\ last.op = "should_create_challenge"
    /\ AsConstructed
    /\ now = 0
    /\ self.allow_matchmaking
    /\ self.challenge_timeout > 0
    /\ ~last.decision

\* C15: choose_opponent returns normally with base_time, increment and days
\* resolved from the profile: an integer setting gives that integer, a list
\* setting one of its elements, and a setting the profile lacks gives 60 for
\* challenge_initial_time, 2 for challenge_increment and None for challenge_days.
\* (The client answers get_online_bots and a variant can be chosen.)
C15_TimesResolved ==
    (last.op = "challenge" /\ last.env.online_bots_exc = NoExc /\ self.variants # <<>>) =>
        LET cfg == self.cfgs[last.profile]
            Resolved(name, default, val) ==
                IF name \notin DOMAIN cfg THEN val = default
                ELSE IF cfg[name].kind = "int" THEN val = cfg[name].vals
                ELSE IF cfg[name].kind = "list"
                     THEN val # <<>> /\ val[1] \in Range(cfg[name].vals)
                ELSE val = <<>>
        IN /\ last.chosen.exc = NoExc
           /\ Resolved("challenge_initial_time", <<60>>, last.chosen.base_time)
           /\ Resolved("challenge_increment", <<2>>, last.chosen.increment)
           /\ Resolved("challenge_days", <<>>, last.chosen.days)

\* C16: a challenge() issues a request exactly when choose_opponent found an
\* opponent, and at most one; when it is over last_challenge_created is the
\* current time, challenge_id is the id li.challenge's response carried or None,
\* and last_game_ended is what it was.
C16_ChallengeRecordsAttempt ==
    [][(pc = "challenge" /\ last'.op = "challenge") =>
          /\ Len(last'.sent) <= 1
          /\ last'.sent # <<>> <=> last'.chosen.bot_username # None
          /\ self'.last_challenge_created = now
          /\ self'.challenge_id =
                (IF last'.sent # <<>> /\ last'.env.challenge_reply \in ChallengeIds
                 THEN last'.env.challenge_reply ELSE None)
          /\ self'.last_game_ended = self.last_game_ended]_vars

\* C17: every request create_challenge passes to li.challenge carries rated =
\* (mode = "rated"), the variant, and exactly one clock style: days alone, or
\* clock.limit together with clock.increment; days only when the days argument
\* is set (not None, not 0), the clock only when base_time or increment is not 0.
C17_ParamsWellFormed ==
    last.op = "create_challenge" =>
        \A i \in 1..Len(last.sent) :
            LET p == last.sent[i].params
                a == last.args
            IN /\ p.rated = (a.mode = "rated")
               /\ p.variant = a.variant
               /\ (p.days # <<>>) # p.has_clock
               /\ p.has_clock <=> (p.clock_limit # <<>> /\ p.clock_increment # <<>>)
               /\ p.has_clock <=> (p.clock_limit # <<>> \/ p.clock_increment # <<>>)
               /\ p.days # <<>> => (p.days = a.days /\ a.days \notin {<<>>, <<0>>})
               /\ p.has_clock =>
                    /\ p.clock_limit = a.base_time
                    /\ p.clock_increment = a.increment
                    /\ (a.base_time # <<0>> \/ a.increment # <<0>>)

\* Both styles are available (days 2, base time 60) and the request carries the
\* clock.
C17_Witness ==
    /\ last.op = "create_challenge"
    /\ last.args.days = <<2>>
    /\ last.args.base_time = <<60>>
    /\ last.sent # <<>>
    /\ last.sent[1].params.has_clock
    /\ last.sent[1].params.days = <<>>

\* C20: for the standard variant, the bucket derived from the base time, the
\* increment and the days that create_challenge is called with agrees with the
\* style of the request it sends: a request with the clock goes with a bucket
\* by duration, a request with days with "correspondence".
C20_BucketAgreesWithStyle ==
    (last.op = "create_challenge" /\ last.args.variant = "standard") =>
        \A i \in 1..Len(last.sent) :
            LET p == last.sent[i].params
                a == last.args
                bucket == game_type(a.variant, a.days, a.base_time[1], a.increment[1])
            IN /\ p.has_clock => bucket \in {"bullet", "blitz", "rapid", "classical"}
               /\ p.days # <<>> => bucket = "correspondence"

\* C19: with the clock advancing, the ticks going on and li.cancel succeeding,
\* every tracked id is eventually passed to li.cancel and cleared; the id changes
\* in no other step than that cancellation (a game ending leaves it), and until
\* then challenge() is not entered.
C19_TrackedIdEventuallyCancelled ==
    /\ \A id \in ChallengeIds :
          (self.challenge_id = id)
              ~> (/\ self.challenge_id = None
                  /\ last.op = "cancel_expired_challenges"
                  /\ last.cancelled = <<id>>)
    /\ [][(self.challenge_id # None /\ self'.challenge_id # self.challenge_id) =>
            /\ last'.op = "cancel_expired_challenges"
            /\ last'.cancelled = <<self.challenge_id>>
            /\ self'.challenge_id = None]_vars
    /\ [](pc = "challenge" => self.challenge_id = None)

\* The tracked id has expired and a tick has cancelled and cleared it.
C19_Witness ==
    /\ last.op = "cancel_expired_challenges"
    /\ last.before # None
    /\ last.cancelled = <<last.before>>
    /\ self.challenge_id = None
    /\ li.cancels = 1

=============================================================================
